---- MODULE Spec2Model ----
(***************************************************************************)
(* download-tiles: src/download_tiles/cli.py.                              *)
(*                                                                         *)
(* One run of the `cli` command with an mbtiles argument (no --show-bbox,  *)
(* --country or --city): the click callbacks, the checks at the top of     *)
(* cli(), the per-zoom enumeration, the ThreadPoolExecutor running         *)
(* download_tile over the jobs of one zoom level, and the two              *)
(* retry-wrapped stamps that end the run.                                  *)
(*                                                                         *)
(* Degrees are held as integers in units of 1e-4 degree (51.5 -> 515000).  *)
(***************************************************************************)
EXTENDS Integers, Sequences, FiniteSets, TLC

None == "None"

\* ------------------------------------------------------------- bounds
\* Highest zoom level an accepted --zoom-levels value names in the model.
MaxZoom == 1
\* Highest --thread-count in the model.
MaxThreads == 2
\* Tile writes another process makes to the same file during the run.
MaxOtherWrites == 1

\* ----------------------------------------------------- program constants
APPLICATION_ID == 1297105496
max_retries == 5
\* "if high > 24" in parse_zoom_levels.
MaxZoomLevel == 24

\* ------------------------------------------------------------- helpers
RECURSIVE Pow2(_)
Pow2(k) == IF k = 0 THEN 1 ELSE 2 * Pow2(k - 1)

\* Python's int() on a quotient: truncation toward zero.
TruncDiv(a, b) == IF a >= 0 THEN a \div b ELSE -((-a) \div b)

Min(a, b) == IF a < b THEN a ELSE b
Max(a, b) == IF a > b THEN a ELSE b

\* range(a, b + 1) as a sequence.
RangeSeq(a, b) == [i \in 1..(IF b >= a THEN b - a + 1 ELSE 0) |-> a + i - 1]

SeqToSet(s) == {s[i] : i \in 1..Len(s)}

\* ------------------------------------------------------ click callbacks
\* A --zoom-levels value is held as what the regular expression
\* ^(\d+)(?:\-(\d+))?$ makes of it: whether it matches, its first group, and
\* its second group when there is one (has_high; None for a single number).
parse_zoom_levels(value) ==
    IF ~value.match
    THEN [err |-> "zoom-levels should be a single number or a 3-7 number range"]
    ELSE LET low == value.low
             high == IF ~value.has_high THEN low ELSE value.high
         IN  IF high < low
             THEN [err |-> "zoom-levels should be a low-high range"]
             ELSE IF high > MaxZoomLevel
                  THEN [err |-> "Maximum zoom level is 24"]
                  ELSE [err |-> None, low |-> low, high |-> high]

\* A --bbox value: whether the four-float regular expression matches, and the
\* four floats min_lon, min_lat, max_lon, max_lat.
parse_bbox(value) ==
    IF ~value.match
    THEN [err |-> "bbox should be min-lon,min-lat,max-lon,max-lat"]
    ELSE [err |-> None, bbox |-> value.groups]

Fragments == <<"{z}", "{x}", "{y}">>

\* A --tiles-url value: not given (None), or the set of the fragments the
\* string holds.
validate_tiles_url(value) ==
    IF ~value.given
    THEN [err |-> None]
    ELSE IF \E i \in 1..Len(Fragments) : Fragments[i] \notin value.fragments
         THEN [err |-> "tiles-url should include {z}, {x}, {y}"]
         ELSE [err |-> None]

\* ----------------------------------------------------------- projection
\* floor(((1 - ln(tan(lat_rad) + 1/cos(lat_rad)) / pi) / 2) * 2^30) for the
\* clamped latitudes the model's bounding boxes use, as the doubles of
\* deg2num give it.
MercatorFix(lat) ==
    CASE lat = -850511 -> 1073740828
      [] lat = -100000 -> 566849663
      [] lat = 0       -> 536870912
      [] lat = 100000  -> 506892160
      [] lat = 515000  -> 357082019
      [] lat = 516000  -> 356602368
      [] lat = 850511  -> 995

deg2num(lat_deg, lon_deg, zoom) ==
    LET lat_c == Max(Min(850511, lat_deg), -850511)
        n == Pow2(zoom)
        xtile == TruncDiv((lon_deg + 1800000) * n, 3600000)
        ytile == MercatorFix(lat_c) \div Pow2(30 - zoom)
    IN  <<xtile, ytile>>

\* ------------------------------------------------------------- inputs
\* min_lon, min_lat, max_lon, max_lat of the bounding boxes the model runs.
London == <<-1000, 515000, 0, 516000>>
Box10 == <<-100000, -100000, 100000, 100000>>
\* The default of --bbox: -180.0,-90.0,180.0,90.0.
World == <<-1800000, -900000, 1800000, 900000>>

\* "low-high" and "low".
ZoomRange(low, high) ==
    [match |-> TRUE, low |-> low, has_high |-> TRUE, high |-> high]
ZoomSingle(low) ==
    [match |-> TRUE, low |-> low, has_high |-> FALSE, high |-> 0]
\* "0", "1", ... and the range "0-MaxZoom".
ValidZoomValues ==
    {ZoomSingle(z) : z \in 0..MaxZoom} \cup {ZoomRange(0, MaxZoom)}
\* "abc", "1-0", "24-25".
InvalidZoomValues ==
    {[match |-> FALSE, low |-> 0, has_high |-> FALSE, high |-> 0],
     ZoomRange(1, 0), ZoomRange(MaxZoomLevel, MaxZoomLevel + 1)}

BBoxValue(b) == [match |-> TRUE, groups |-> b]
MalformedBBox == [match |-> FALSE, groups |-> <<>>]

Url(fragments) == [given |-> TRUE, fragments |-> fragments]
NoUrl == [given |-> FALSE, fragments |-> {}]
FullUrl == Url({"{s}", "{z}", "{x}", "{y}"})
InvalidUrls == {Url({"{s}", "{z}", "{x}"}), Url({"{z}", "{y}"})}

\* Tile bytes by where they come from: a row of an earlier run, a file of the
\* cache directory, the body of an HTTP response.
OldBytes == "old"
CachedBytes == "cached"
NetBytes == {"net"}
\* The bytes a tile written by another process holds.
OtherBytes == "other"

Row(t, data) ==
    [zoom_level |-> t[1], tile_column |-> t[2], tile_row |-> t[3],
     tile_data |-> data]
Coord(row) == <<row.zoom_level, row.tile_column, row.tile_row>>

\* SELECT 1 FROM tiles WHERE zoom_level = ? AND tile_column = ? AND
\* tile_row = ?, then cursor.fetchone().
never_present(rows, t) == FALSE

already_present(rows, t) == \E r \in rows : Coord(r) = t

\* INSERT OR IGNORE INTO tiles (...) VALUES (?, ?, ?, ?): the primary key
\* (zoom_level, tile_column, tile_row) decides.
insert_or_replace(rows, t, data) ==
    {r \in rows : Coord(r) # t} \cup {Row(t, data)}

plain_insert(rows, t, data) == rows \cup {Row(t, data)}

insert_or_ignore(rows, t, data) ==
    IF \E r \in rows : Coord(r) = t THEN rows ELSE rows \cup {Row(t, data)}

\* ---------------------------------------------------------- enumeration
x_range_exclusive(x_min, x_max) == RangeSeq(x_min, x_max - 1)

\* range(x_min, x_max + 1)
x_range(x_min, x_max) == RangeSeq(x_min, x_max)

\* range(y_min, y_max + 1)
y_range(y_min, y_max) == RangeSeq(y_min, y_max)

\* The rectangle of one zoom level, x outermost, before the resume filter.
rectangle(bbox, z) ==
    LET min_lon == bbox[1]
        min_lat == bbox[2]
        max_lon == bbox[3]
        max_lat == bbox[4]
        top_left == deg2num(max_lat, min_lon, z)
        bottom_right == deg2num(min_lat, max_lon, z)
        xs == x_range(top_left[1], bottom_right[1])
        ys == y_range(top_left[2], bottom_right[2])
    IN  [i \in 1..(Len(xs) * Len(ys)) |->
            <<z, xs[((i - 1) \div Len(ys)) + 1], ys[((i - 1) % Len(ys)) + 1]>>]

\* The list `tiles` of one zoom level: with --continue a coordinate that has
\* a row is left out.
enumerate_tiles(bbox, z, continue_download, rows) ==
    SelectSeq(rectangle(bbox, z),
              LAMBDA t : ~(continue_download /\ already_present(rows, t)))

\* Every coordinate of a bounding box over a zoom range.
AllCoords(bbox, low, high) ==
    UNION {SeqToSet(rectangle(bbox, z)) : z \in low..high}

\* ------------------------------------------------------------ the state
VARIABLES
    cfg,            \* the command line and what it finds on disk
    phase,          \* where the main thread is
    error,          \* the exception that left cli(), or None
    zoom,           \* the loop variable of "for zoom in range(...)"
    db_opened,      \* sqlite3.connect(mbtiles) has been called
    db_tiles,       \* the committed rows of the tiles table
    db_lock,        \* who holds the write lock of the file: a thread of
                    \* the pool, OtherProcess, or 0 for nobody
    other_writes,   \* tile writes the other process has begun
    application_id, \* pragma application_id
    metadata,       \* the metadata table: the value of each name
    cache,          \* the files of --cache-dir, one per coordinate
    failed_urls,    \* the lines of --log-failed-urls-to
    tiles,          \* the list `tiles` of the current zoom level
    fut,            \* the future of each entry of `tiles`
    next_result,    \* the result executor.map's iterator waits for
    th,             \* the pool's threads
    attempt,        \* the loop variable of "for attempt in range(max_retries)"
    retry_delay,
    inserts,        \* history: INSERT attempts of each entry of `tiles`
    gets,           \* history: coordinates an HTTP GET was issued for
    fetch_failed,   \* history: coordinates whose GET raised RequestException
    had_row,        \* history: coordinates that had a row when their zoom
                    \* level was enumerated
    created,        \* history: coordinates appended to `tiles`
    dispatched,     \* history: the coordinates download_tile was called
                    \* with, in the order of the calls
    write_failed,   \* history: coordinates whose INSERT raised
    cache_failed    \* history: coordinates whose cache file could not be
                    \* read or written

vars ==
    <<cfg, phase, error, zoom, db_opened, db_tiles, db_lock, other_writes,
      application_id, metadata, cache, failed_urls, tiles, fut, next_result,
      th, attempt, retry_delay, inserts, gets, fetch_failed, had_row,
      created, dispatched, write_failed, cache_failed>>

OtherProcess == -1

\* The metadata table without a row: it only ever holds the three names
\* cli() writes.
NoMetadata == [attribution |-> None, name |-> None, bounds |-> <<>>]

Workers == 1..cfg.thread_count
Idle == [job |-> 0, pc |-> "idle", tile_data |-> None]

zoom_levels == parse_zoom_levels(cfg.zoom_levels)
bbox == parse_bbox(cfg.bbox).bbox

\* ----------------------------------------------------- initial states
Flags ==
    {[overwrite |-> o, continue_download |-> c] : o, c \in BOOLEAN}

\* What an earlier run over the same bounding box and zoom range left in
\* the file: the rows of its first tiles, or every row.
EarlierRows(b, zv) ==
    LET z == parse_zoom_levels(zv)
        all == AllCoords(b, z.low, z.high)
        first == SeqToSet(rectangle(b, z.low))
    IN  {[exists |-> TRUE, rows |-> {Row(t, OldBytes) : t \in ts}] :
            ts \in {first, all}}

\* The cache directory of an earlier run: empty, or the first tile.
EarlierCache(b, zv) ==
    LET z == parse_zoom_levels(zv)
        r == rectangle(b, z.low)
    IN  {[dir |-> TRUE, files |-> {}]}
            \cup {[dir |-> TRUE, files |-> {Row(r[i], CachedBytes)}] :
                    i \in {1} \cap DOMAIN r}

BaseConfig ==
    [zoom_levels |-> ZoomSingle(0), bbox |-> BBoxValue(London),
     tiles_url |-> NoUrl, overwrite |-> FALSE, continue_download |-> FALSE,
     exists |-> FALSE, rows |-> {}, stamped |-> FALSE,
     skip_on_failure |-> FALSE, log_failed_urls_to |-> FALSE,
     cache_dir |-> FALSE, cache_files |-> {}, thread_count |-> 1,
     attribution |-> None, name |-> None]

\* Command lines click or the checks of cli() may refuse: one option varied
\* at a time, with and without an existing file (which holds the one tile
\* of London at zoom 0).
CheckedConfigs ==
    {[BaseConfig EXCEPT !.zoom_levels = zv, !.bbox = bv, !.tiles_url = u,
                        !.overwrite = f.overwrite,
                        !.continue_download = f.continue_download,
                        !.exists = e,
                        !.rows = IF e THEN {Row(<<0, 0, 0>>, OldBytes)}
                                 ELSE {}] :
        zv \in InvalidZoomValues \cup {ZoomSingle(0)},
        bv \in {MalformedBBox, BBoxValue(London)},
        u \in InvalidUrls \cup {NoUrl, FullUrl},
        f \in Flags, e \in BOOLEAN}

\* The bounding boxes with the zoom levels each is run at: London over every
\* accepted value (one or two tiles a level), Box10 at zoom 1 (four tiles),
\* the default bounding box at zoom 0 (two tiles).
RunShapes ==
    {<<London, zv>> : zv \in ValidZoomValues}
        \cup {<<Box10, ZoomSingle(1)>>, <<World, ZoomSingle(0)>>}

\* The rows of a complete earlier run over a shape.
FullRows(s) ==
    {Row(t, OldBytes) : t \in AllCoords(s[1], parse_zoom_levels(s[2]).low,
                                        parse_zoom_levels(s[2]).high)}

\* What --continue may find: no file (None) or the file of an earlier run;
\* without --continue a run only starts when there is no file.
NoFile == [exists |-> FALSE, rows |-> {}]
FoundRows(s, c) == {NoFile} \cup (IF c THEN EarlierRows(s[1], s[2]) ELSE {})

NoCache == [dir |-> FALSE, files |-> {}]

\* --skip-on-failure with and without --log-failed-urls-to.
FailureModes ==
    {[skip |-> sk, log |-> lg] : sk, lg \in BOOLEAN} \ {[skip |-> FALSE, log |-> TRUE]}

RunConfig(s, c, found, fm, cf, n) ==
    [BaseConfig EXCEPT !.zoom_levels = s[2], !.bbox = BBoxValue(s[1]),
                       !.continue_download = c, !.exists = found.exists,
                       !.rows = found.rows,
                       !.stamped = (found.rows # {}
                                    /\ found.rows = FullRows(s)),
                       !.skip_on_failure = fm.skip,
                       !.log_failed_urls_to = fm.log,
                       !.cache_dir = cf.dir,
                       !.cache_files = cf.files,
                       !.thread_count = n]

\* Whether a shape is run with --continue: the four tiles of Box10 are only
\* downloaded from scratch.
Continues(s) == IF s[1] = Box10 THEN {FALSE} ELSE BOOLEAN

\* Command lines that download.
RunConfigs ==
    UNION {UNION {
        {RunConfig(s, c, found, fm, cf, n) :
            found \in FoundRows(s, c), fm \in FailureModes,
            cf \in {NoCache} \cup EarlierCache(s[1], s[2]),
            n \in 1..MaxThreads} :
        c \in Continues(s)} : s \in RunShapes}

Configs == CheckedConfigs \cup RunConfigs

\* The header and the metadata of the file the run finds: those of a
\* complete earlier run, or none.
FoundApplicationId == IF cfg.stamped THEN APPLICATION_ID ELSE 0
FoundMetadata ==
    IF cfg.stamped THEN [NoMetadata EXCEPT !.bounds = cfg.bbox.groups]
    ELSE NoMetadata

Init ==
    /\ cfg \in Configs
    /\ phase = "parse"
    /\ error = None
    /\ zoom = 0
    /\ db_opened = FALSE
    /\ db_tiles = cfg.rows
    /\ db_lock = 0
    /\ other_writes = 0
    /\ application_id = FoundApplicationId
    /\ metadata = FoundMetadata
    /\ cache = cfg.cache_files
    /\ failed_urls = <<>>
    /\ tiles = <<>>
    /\ fut = <<>>
    /\ next_result = 1
    /\ th = [w \in Workers |-> Idle]
    /\ attempt = 0
    /\ retry_delay = 1
    /\ inserts = <<>>
    /\ gets = {}
    /\ fetch_failed = {}
    /\ had_row = {}
    /\ created = {}
    /\ dispatched = <<>>
    /\ write_failed = {}
    /\ cache_failed = {}

\* ------------------------------------------------- the click callbacks
\* click runs the option callbacks before it calls cli(); the first
\* BadParameter ends the run.
ParseArgs ==
    /\ phase = "parse"
    /\ IF \/ parse_zoom_levels(cfg.zoom_levels).err # None
          \/ parse_bbox(cfg.bbox).err # None
          \/ validate_tiles_url(cfg.tiles_url).err # None
       THEN phase' = "usage_error" /\ error' = "BadParameter"
       ELSE phase' = "cli" /\ error' = error
    /\ UNCHANGED <<cfg, zoom, db_opened, db_tiles, db_lock, other_writes,
                   application_id, metadata, cache, failed_urls, tiles, fut,
                   next_result, th, attempt, retry_delay, inserts, gets,
                   fetch_failed, had_row, created, dispatched, write_failed,
                   cache_failed>>

\* ------------------------------------------------- the top of cli()
no_flag_check(overwrite, continue_download, exists) == None

\* The checks of cli() before the database is opened; None when they pass.
flag_check(overwrite, continue_download, exists) ==
    IF overwrite /\ continue_download
    THEN "Cannot use --overwrite and --continue at the same time."
    ELSE IF continue_download /\ exists
         THEN None
         ELSE IF exists
              THEN "already exists. Use --overwrite to overwrite it or --continue"
              ELSE None

\* The checks, then sqlite3.connect and the two CREATE TABLE IF NOT EXISTS.
CliStart ==
    /\ phase = "cli"
    /\ IF flag_check(cfg.overwrite, cfg.continue_download, cfg.exists) # None
       THEN /\ phase' = "usage_error"
            /\ error' = "BadParameter"
            /\ UNCHANGED <<db_opened, zoom>>
       ELSE /\ db_opened' = TRUE
            /\ zoom' = zoom_levels.low
            /\ phase' = "enumerate"
            /\ error' = error
    /\ UNCHANGED <<cfg, db_tiles, db_lock, other_writes, application_id,
                   metadata, cache, failed_urls, tiles, fut, next_result, th,
                   attempt, retry_delay, inserts, gets, fetch_failed, had_row,
                   created, dispatched, write_failed, cache_failed>>

\* ------------------------------------------------- one zoom level
\* The body of the zoom loop up to executor.map, which submits every entry
\* of `tiles` before it returns its iterator.
Enumerate ==
    /\ phase = "enumerate"
    /\ tiles' = enumerate_tiles(bbox, zoom, cfg.continue_download, db_tiles)
    /\ had_row' = had_row \cup
          {Coord(r) : r \in {q \in db_tiles : q.zoom_level = zoom}}
    /\ created' = created \cup SeqToSet(tiles')
    /\ fut' = [i \in 1..Len(tiles') |-> "pending"]
    /\ inserts' = [i \in 1..Len(tiles') |-> 0]
    /\ next_result' = 1
    /\ phase' = "pool"
    /\ UNCHANGED <<cfg, error, zoom, db_opened, db_tiles, db_lock, other_writes,
                   application_id, metadata, cache, failed_urls, th, attempt,
                   retry_delay, gets, fetch_failed, dispatched, write_failed,
                   cache_failed>>

\* ------------------------------------------------- download_tile
\* How requests.get(...) / raise_for_status() can end in a
\* RequestException: an HTTP status of 400 or more, or no response at all.
FetchFailures == {"http404", "http500", "transport"}

\* e.response is a Response, not None.
has_response(failure) == failure \in {"http404", "http500"}

\* e.response.status_code
status_code(failure) ==
    CASE failure = "http404" -> 404
      [] failure = "http500" -> 500

\* bool(e.response): None is false, and a requests.Response is true exactly
\* when its status is below 400 (Response.__bool__ returns Response.ok).
response_truthy(failure) ==
    has_response(failure) /\ status_code(failure) < 400

\* "if log_failed_urls_to and e.response and e.response.status_code == 404"
logs_failure(log_failed_urls_to, failure) ==
    /\ log_failed_urls_to
    /\ response_truthy(failure)
    /\ status_code(failure) = 404

cache_never_exists(files, t) == FALSE

\* cache_path.exists()
cache_exists(files, t) == \E f \in files : Coord(f) = t

\* open(cache_path, "rb").read()
cache_read(files, t) == (CHOOSE f \in files : Coord(f) = t).tile_data

no_cache_write(files, t, data) == files

\* open(cache_path, "wb").write(tile_data)
cache_write(files, t, data) ==
    {f \in files : Coord(f) # t} \cup {Row(t, data)}

PendingJobs == {i \in 1..Len(fut) : fut[i] = "pending"}

\* How a future ends: its state, and the thread back in the pool.
Settle(w, state) ==
    /\ fut' = [fut EXCEPT ![th[w].job] = state]
    /\ th' = [th EXCEPT ![w] = Idle]

\* The head of the work queue: the jobs are queued in the order of `tiles`.
head_of_queue == CHOOSE j \in PendingJobs : \A k \in PendingJobs : j <= k

left_in_queue(futures, i) == futures

\* work_queue.get() and set_running_or_notify_cancel(): the job a thread
\* takes is no longer in the queue.
taken_from_queue(futures, i) == [futures EXCEPT ![i] = "running"]

\* A thread of the pool is free to take the head of the work queue. The
\* threads are interchangeable, so of the idle ones the lowest takes it.
CanStart(w) ==
    /\ phase \in {"pool", "shutdown"}
    /\ th[w].pc = "idle"
    /\ \A v \in Workers : v < w => th[v].pc # "idle"
    /\ PendingJobs # {}

\* A thread takes the head of the work queue and runs download_tile up to
\* the cache lookup: a cache file sends it straight to the INSERT.
Start(w) ==
    /\ CanStart(w)
    /\ LET i == head_of_queue
           t == tiles[i]
       IN  /\ fut' = taken_from_queue(fut, i)
           /\ dispatched' = Append(dispatched, t)
           /\ th' = [th EXCEPT ![w] =
                  IF cfg.cache_dir /\ cache_exists(cache, t)
                  THEN [job |-> i, pc |-> "insert",
                        tile_data |-> cache_read(cache, t)]
                  ELSE [job |-> i, pc |-> "get", tile_data |-> None]]
    /\ UNCHANGED <<cfg, phase, error, zoom, db_opened, db_tiles, db_lock,
                   other_writes, application_id, metadata, cache, failed_urls,
                   tiles, next_result, attempt, retry_delay, inserts, gets,
                   fetch_failed, had_row, created, write_failed, cache_failed>>

\* A thread takes the head of the work queue, finds the cache file of its
\* coordinate, and open(cache_path, "rb") or f.read() raises OSError: the
\* read is outside the try of download_tile, so the exception is the
\* future's.
CacheReadFail(w) ==
    /\ CanStart(w)
    /\ LET i == head_of_queue
           t == tiles[i]
       IN  /\ cfg.cache_dir
           /\ cache_exists(cache, t)
           /\ fut' = [fut EXCEPT ![i] = "OSError"]
           /\ dispatched' = Append(dispatched, t)
           /\ cache_failed' = cache_failed \cup {t}
    /\ UNCHANGED <<cfg, phase, error, zoom, db_opened, db_tiles, db_lock,
                   other_writes, application_id, metadata, cache, failed_urls,
                   tiles, next_result, th, attempt, retry_delay, inserts, gets,
                   fetch_failed, had_row, created, write_failed>>

\* requests.get and raise_for_status succeed: the body goes to the cache
\* directory when there is one, then to the INSERT.
FetchOk(w) ==
    /\ th[w].pc = "get"
    /\ \E data \in NetBytes :
          LET t == tiles[th[w].job]
          IN  /\ gets' = gets \cup {t}
              /\ cache' = IF cfg.cache_dir
                          THEN cache_write(cache, t, data) ELSE cache
              /\ th' = [th EXCEPT ![w].pc = "insert", ![w].tile_data = data]
    /\ UNCHANGED <<cfg, phase, error, zoom, db_opened, db_tiles, db_lock,
                   other_writes, application_id, metadata, failed_urls, tiles,
                   fut, next_result, attempt, retry_delay, inserts, fetch_failed,
                   had_row, created, dispatched, write_failed, cache_failed>>

\* requests.get and raise_for_status succeed and open(cache_path, "wb")
\* raises OSError (the directory is missing or not writable): no file is
\* written, and "except requests.exceptions.RequestException" does not catch
\* it, so the exception is the future's.
CacheWriteFail(w) ==
    /\ th[w].pc = "get"
    /\ cfg.cache_dir
    /\ gets' = gets \cup {tiles[th[w].job]}
    /\ cache_failed' = cache_failed \cup {tiles[th[w].job]}
    /\ Settle(w, "OSError")
    /\ UNCHANGED <<cfg, phase, error, zoom, db_opened, db_tiles, db_lock,
                   other_writes, application_id, metadata, cache, failed_urls,
                   tiles, next_result, attempt, retry_delay, inserts,
                   fetch_failed, had_row, created, dispatched, write_failed>>

swallowed(skip_on_failure) == "done"

\* The "except requests.exceptions.RequestException" of download_tile: how
\* the future ends.
on_request_exception(skip_on_failure) ==
    IF skip_on_failure THEN "done" ELSE "RequestException"

\* requests.get or raise_for_status raises RequestException: with
\* --skip-on-failure download_tile returns, else the exception is the
\* future's.
FetchFail(w) ==
    /\ th[w].pc = "get"
    /\ \E failure \in FetchFailures :
          LET t == tiles[th[w].job]
          IN  /\ gets' = gets \cup {t}
              /\ fetch_failed' = fetch_failed \cup {t}
              /\ failed_urls' =
                    IF /\ cfg.skip_on_failure
                       /\ logs_failure(cfg.log_failed_urls_to, failure)
                    THEN Append(failed_urls, t)
                    ELSE failed_urls
              /\ Settle(w, on_request_exception(cfg.skip_on_failure))
    /\ UNCHANGED <<cfg, phase, error, zoom, db_opened, db_tiles, db_lock,
                   other_writes, application_id, metadata, cache, tiles,
                   next_result, attempt, retry_delay, inserts, had_row, created,
                   dispatched, write_failed, cache_failed>>

\* db.execute("INSERT OR IGNORE ...") takes the write lock of the file.
Insert(w) ==
    /\ th[w].pc = "insert"
    /\ db_lock = 0
    /\ db_lock' = w
    /\ inserts' = [inserts EXCEPT ![th[w].job] = @ + 1]
    /\ th' = [th EXCEPT ![w].pc = "commit"]
    /\ UNCHANGED <<cfg, phase, error, zoom, db_opened, db_tiles, other_writes,
                   application_id, metadata, cache, failed_urls, tiles, fut,
                   next_result, attempt, retry_delay, gets, fetch_failed,
                   had_row, created, dispatched, write_failed, cache_failed>>

sunk(skip_on_failure) ==
    IF skip_on_failure THEN "done" ELSE "OperationalError"

\* sqlite3.OperationalError is not a RequestException: with or without
\* --skip-on-failure it leaves download_tile and is the future's.
on_operational_error(skip_on_failure) == "OperationalError"

\* db.execute("INSERT OR IGNORE ...") finds the write lock held for longer
\* than the connection's timeout: sqlite3.OperationalError("database is
\* locked"), which nothing in download_tile catches.
InsertLocked(w) ==
    /\ th[w].pc = "insert"
    /\ db_lock # 0
    /\ inserts' = [inserts EXCEPT ![th[w].job] = @ + 1]
    /\ write_failed' = write_failed \cup {tiles[th[w].job]}
    /\ Settle(w, on_operational_error(cfg.skip_on_failure))
    /\ UNCHANGED <<cfg, phase, error, zoom, db_opened, db_tiles, db_lock,
                   other_writes, application_id, metadata, cache, failed_urls,
                   tiles, next_result, attempt, retry_delay, gets, fetch_failed,
                   had_row, created, dispatched, cache_failed>>

\* db.commit(), db.close() and the return of download_tile.
Commit(w) ==
    /\ th[w].pc = "commit"
    /\ db_tiles' = insert_or_ignore(db_tiles, tiles[th[w].job], th[w].tile_data)
    /\ db_lock' = 0
    /\ Settle(w, "done")
    /\ UNCHANGED <<cfg, phase, error, zoom, db_opened, other_writes,
                   application_id, metadata, cache, failed_urls, tiles,
                   next_result, attempt, retry_delay, inserts, gets,
                   fetch_failed, had_row, created, dispatched, write_failed,
                   cache_failed>>

\* ------------------------------------------------- another process
\* The file is shared: another run of the program on the same file writes
\* the first tile of the lowest zoom level with the same INSERT OR IGNORE /
\* commit, holding the write lock in between.
OtherTile == rectangle(bbox, zoom_levels.low)[1]

Running ==
    phase \in {"enumerate", "pool", "shutdown", "application_id", "metadata"}

OtherInsert ==
    /\ Running
    /\ other_writes < MaxOtherWrites
    /\ Len(rectangle(bbox, zoom_levels.low)) > 0
    /\ db_lock = 0
    /\ db_lock' = OtherProcess
    /\ other_writes' = other_writes + 1
    /\ UNCHANGED <<cfg, phase, error, zoom, db_opened, db_tiles, application_id,
                   metadata, cache, failed_urls, tiles, fut, next_result, th,
                   attempt, retry_delay, inserts, gets, fetch_failed, had_row,
                   created, dispatched, write_failed, cache_failed>>

OtherCommit ==
    /\ db_lock = OtherProcess
    /\ db_tiles' = insert_or_ignore(db_tiles, OtherTile, OtherBytes)
    /\ db_lock' = 0
    /\ UNCHANGED <<cfg, phase, error, zoom, db_opened, other_writes,
                   application_id, metadata, cache, failed_urls, tiles, fut,
                   next_result, th, attempt, retry_delay, inserts, gets,
                   fetch_failed, had_row, created, dispatched, write_failed,
                   cache_failed>>

\* ------------------------------------------------- the pool's caller
\* "for _ in executor.map(...)": the iterator hands over the results in the
\* order of `tiles`.
Collect ==
    /\ phase = "pool"
    /\ next_result <= Len(tiles)
    /\ fut[next_result] = "done"
    /\ next_result' = next_result + 1
    /\ UNCHANGED <<cfg, phase, error, zoom, db_opened, db_tiles, db_lock,
                   other_writes, application_id, metadata, cache, failed_urls,
                   tiles, fut, th, attempt, retry_delay, inserts, gets,
                   fetch_failed, had_row, created, dispatched, write_failed,
                   cache_failed>>

\* The result the iterator waits for is an exception: the iterator's
\* "finally" cancels every future that has not started, and the "with"
\* block waits for the running ones (shutdown(wait=True)).
CollectError ==
    /\ phase = "pool"
    /\ next_result <= Len(tiles)
    /\ fut[next_result] \in {"RequestException", "OperationalError", "OSError"}
    /\ error' = fut[next_result]
    /\ fut' = [i \in 1..Len(fut) |->
                  IF fut[i] = "pending" THEN "cancelled" ELSE fut[i]]
    /\ phase' = "shutdown"
    /\ UNCHANGED <<cfg, zoom, db_opened, db_tiles, db_lock, other_writes,
                   application_id, metadata, cache, failed_urls, tiles,
                   next_result, th, attempt, retry_delay, inserts, gets,
                   fetch_failed, had_row, created, dispatched, write_failed,
                   cache_failed>>

\* shutdown(wait=True) returns when no thread is running a job; the
\* exception then leaves cli().
Raise ==
    /\ phase = "shutdown"
    /\ \A w \in Workers : th[w].pc = "idle"
    /\ phase' = "aborted"
    /\ UNCHANGED <<cfg, error, zoom, db_opened, db_tiles, db_lock, other_writes,
                   application_id, metadata, cache, failed_urls, tiles, fut,
                   next_result, th, attempt, retry_delay, inserts, gets,
                   fetch_failed, had_row, created, dispatched, write_failed,
                   cache_failed>>

not_waited(futures, n) == TRUE

\* The for loop over executor.map ends when the iterator has handed over the
\* result of every future, and the exit of the "with" block has then no
\* thread to wait for.
drained(futures, n) == n = Len(futures) + 1

\* Every result was handed over: the "with" block ends and the zoom loop
\* goes on, or the run goes on to the stamps.
PoolExit ==
    /\ phase = "pool"
    /\ drained(fut, next_result)
    /\ IF zoom < zoom_levels.high
       THEN zoom' = zoom + 1 /\ phase' = "enumerate"
       ELSE zoom' = zoom /\ phase' = "application_id"
    /\ UNCHANGED <<cfg, error, db_opened, db_tiles, db_lock, other_writes,
                   application_id, metadata, cache, failed_urls, tiles, fut,
                   next_result, th, attempt, retry_delay, inserts, gets,
                   fetch_failed, had_row, created, dispatched, write_failed,
                   cache_failed>>

\* ------------------------------------------------- the two stamps
\* What the transaction of a stamp can answer: "ok" when nobody holds the
\* write lock, "database is locked" when somebody does for longer than the
\* timeout, and any other sqlite3.OperationalError.
StampAnswers ==
    (IF db_lock = 0 THEN {"ok"} ELSE {"locked"}) \cup {"error"}

\* "if 'database is locked' in str(e) and attempt < max_retries - 1"
retries(answer, n) == answer = "locked" /\ n < max_retries - 1

\* One pass of the first retry loop: pragma application_id, set when unset.
StampApplicationId ==
    /\ phase = "application_id"
    /\ \E answer \in StampAnswers :
          IF answer = "ok"
          THEN /\ application_id' =
                     IF application_id = 0 THEN APPLICATION_ID
                     ELSE application_id
               /\ phase' = "metadata"
               /\ attempt' = 0
               /\ UNCHANGED <<retry_delay, error>>
          ELSE IF retries(answer, attempt)
               THEN /\ retry_delay' = retry_delay * 2
                    /\ attempt' = attempt + 1
                    /\ UNCHANGED <<application_id, phase, error>>
               ELSE /\ phase' = "aborted"
                    /\ error' = "OperationalError"
                    /\ UNCHANGED <<application_id, attempt, retry_delay>>
    /\ UNCHANGED <<cfg, zoom, db_opened, db_tiles, db_lock, other_writes,
                   metadata, cache, failed_urls, tiles, fut, next_result, th,
                   inserts, gets, fetch_failed, had_row, created, dispatched,
                   write_failed, cache_failed>>

DEFAULT_ATTRIBUTION == "(c) OpenStreetMap contributors"

\* attribution as the second loop finds it: the default when neither
\* --attribution nor --tiles-url is given, and for "osm".
attribution ==
    LET a == IF cfg.attribution = None /\ ~cfg.tiles_url.given
             THEN DEFAULT_ATTRIBUTION ELSE cfg.attribution
    IN  IF a = "osm" THEN DEFAULT_ATTRIBUTION ELSE a

\* The "insert or replace into metadata" of one transaction: attribution
\* and name when they are set, bounds always.
stamped_metadata(table) ==
    [attribution |-> IF attribution # None THEN attribution
                     ELSE table.attribution,
     name |-> IF cfg.name # None THEN cfg.name ELSE table.name,
     bounds |-> bbox]

\* One pass of the second retry loop; bbox is a tuple of four, so
\* "if attribution or name or bbox" always holds.
StampMetadata ==
    /\ phase = "metadata"
    /\ \E answer \in StampAnswers :
          IF answer = "ok"
          THEN /\ metadata' = stamped_metadata(metadata)
               /\ phase' = "done"
               /\ UNCHANGED <<attempt, retry_delay, error>>
          ELSE IF retries(answer, attempt)
               THEN /\ retry_delay' = retry_delay * 2
                    /\ attempt' = attempt + 1
                    /\ UNCHANGED <<metadata, phase, error>>
               ELSE /\ phase' = "aborted"
                    /\ error' = "OperationalError"
                    /\ UNCHANGED <<metadata, attempt, retry_delay>>
    /\ UNCHANGED <<cfg, zoom, db_opened, db_tiles, db_lock, other_writes,
                   application_id, cache, failed_urls, tiles, fut, next_result,
                   th, inserts, gets, fetch_failed, had_row, created, dispatched,
                   write_failed, cache_failed>>

\* ------------------------------------------------- the specification
Next ==
    \/ ParseArgs
    \/ CliStart
    \/ Enumerate
    \/ \E w \in Workers : Start(w)
    \/ \E w \in Workers : CacheReadFail(w)
    \/ \E w \in Workers : FetchOk(w)
    \/ \E w \in Workers : CacheWriteFail(w)
    \/ \E w \in Workers : FetchFail(w)
    \/ \E w \in Workers : Insert(w)
    \/ \E w \in Workers : InsertLocked(w)
    \/ \E w \in Workers : Commit(w)
    \/ Collect
    \/ CollectError
    \/ Raise
    \/ PoolExit
    \/ StampApplicationId
    \/ StampMetadata
    \/ OtherInsert
    \/ OtherCommit

Spec == Init /\ [][Next]_vars

\* =================================================================
\* Properties
\* =================================================================
HasRow(t) == \E r \in db_tiles : Coord(r) = t
RowsOf(t) == {r \in db_tiles : Coord(r) = t}
Ended == phase \in {"done", "aborted"}

InRange(t) ==
    /\ 0 <= t[2] /\ t[2] < Pow2(t[1])
    /\ 0 <= t[3] /\ t[3] < Pow2(t[1])

\* C1: a pool of more than one thread over M > 1 distinct jobs, none of which
\* had a row, all of whose fetches succeed, ends with exactly one row per job
\* coordinate, whatever the interleaving of fetches and write transactions
\* (here: of the pool alone, no other process touching the file, the cache
\* directory in order, and every job a tile that exists).
C1_OneRowPerJob ==
    (/\ cfg.thread_count > 1
     /\ Len(tiles) > 1
     /\ Ended
     /\ other_writes = 0
     /\ cache_failed = {}
     /\ \A i \in 1..Len(tiles) : InRange(tiles[i])
     /\ SeqToSet(tiles) \cap had_row = {}
     /\ SeqToSet(tiles) \subseteq gets \ fetch_failed)
        => \A i \in 1..Len(tiles) : Cardinality(RowsOf(tiles[i])) = 1

\* C2: a tile write that the file answers "locked" fewer than five times is
\* tried again: it is only given up (its exception becoming the job's) once
\* max_retries attempts were made.
C2_LockedWriteRetried ==
    \A i \in 1..Len(fut) :
        fut[i] = "OperationalError" => inserts[i] >= max_retries

\* C3: with --continue, a coordinate that had a row when its zoom level was
\* enumerated gets no job and no HTTP GET; a run over a bounding box and zoom
\* range whose rows are all there issues no GET at all.
C3_ResumeSkipsPresent ==
    (cfg.continue_download /\ db_opened) =>
        /\ (SeqToSet(tiles) \cup gets) \cap had_row = {}
        /\ (\A t \in AllCoords(bbox, zoom_levels.low, zoom_levels.high) :
                \E r \in cfg.rows : Coord(r) = t) => gets = {}

\* C3 witness: a resumed run that ended after skipping some coordinates and
\* fetching others.
C3_Witness ==
    /\ cfg.continue_download
    /\ phase = "done"
    /\ had_row # {}
    /\ gets # {}

\* C4: with --skip-on-failure and --log-failed-urls-to, a finished run has one
\* failure record per job whose fetch failed, and every job has either its
\* row or its failure record.
C4_EveryFailureRecorded ==
    (cfg.skip_on_failure /\ cfg.log_failed_urls_to /\ phase = "done") =>
        /\ Len(failed_urls) = Cardinality(fetch_failed)
        /\ \A i \in 1..Len(tiles) :
              HasRow(tiles[i]) # (tiles[i] \in SeqToSet(failed_urls))

\* C5: with --skip-on-failure a run in which fetches failed is not aborted
\* from the pool: every job whose fetch succeeded has its row when the run
\* ends, and the run ends after the last zoom level with every job of it
\* settled (here: with no other process touching the file and the cache
\* directory in order).
C5_TolerantRunCompletes ==
    (/\ cfg.skip_on_failure
     /\ Ended
     /\ other_writes = 0
     /\ cache_failed = {}
     /\ fetch_failed # {}) =>
        /\ \A t \in gets \ fetch_failed : HasRow(t)
        /\ zoom = zoom_levels.high
        /\ \A i \in 1..Len(fut) : fut[i] = "done"

\* C6: without --skip-on-failure, once a fetch has failed the run never goes
\* past the pool of that zoom level: it ends aborted with an error, no later
\* zoom level is enumerated or fetched, application id and metadata stay as
\* found, and every row added belongs to a job that completed.
C6_StrictAbort ==
    (~cfg.skip_on_failure /\ fetch_failed # {}) =>
        /\ phase \in {"pool", "shutdown", "aborted"}
        /\ phase = "aborted" => error # None
        /\ \A t \in fetch_failed \cup gets \cup SeqToSet(tiles) : t[1] <= zoom
        /\ \E t \in fetch_failed : t[1] = zoom
        /\ application_id = FoundApplicationId
        /\ metadata = FoundMetadata
        /\ \A r \in db_tiles \ cfg.rows :
              \/ r.tile_data = OtherBytes
              \/ r.zoom_level < zoom
              \/ \E i \in 1..Len(tiles) : tiles[i] = Coord(r) /\ fut[i] = "done"

\* C6 witness: a strict run aborted by a failed fetch after other jobs of
\* the pool wrote their rows.
C6_Witness ==
    /\ ~cfg.skip_on_failure
    /\ phase = "aborted"
    /\ error = "RequestException"
    /\ \E r \in db_tiles : r.tile_data \in NetBytes
    /\ \E i \in 1..Len(fut) : fut[i] = "cancelled"

\* C7: the tiles table never holds two rows of one coordinate, a row once
\* there stays there with its bytes, and a tile write onto a coordinate that
\* has a row changes nothing and ends the job without an error.
C7_WriteIdempotent ==
    [][/\ \A r1, r2 \in db_tiles' : Coord(r1) = Coord(r2) => r1 = r2
       /\ \A r \in db_tiles : r \in db_tiles'
       /\ \A w \in Workers :
            (/\ th[w].pc = "commit"
             /\ th'[w].pc = "idle"
             /\ HasRow(tiles[th[w].job]))
                => db_tiles' = db_tiles /\ fut'[th[w].job] = "done"]_vars

\* C7 witness: a job fetched its tile and committed its INSERT, and the row
\* of its coordinate is the one the other process had written first.
C7_Witness ==
    \E i \in 1..Len(tiles) :
        /\ fut[i] = "done"
        /\ inserts[i] = 1
        /\ tiles[i] \in gets \ fetch_failed
        /\ \E r \in db_tiles :
              Coord(r) = tiles[i] /\ r.tile_data = OtherBytes

\* C8: every tile job has 0 <= x < 2^zoom and 0 <= y < 2^zoom.
C8_TileInRange == \A i \in 1..Len(tiles) : InRange(tiles[i])

\* C9: without --continue the jobs of a zoom level are exactly the
\* coordinates (zoom, x, y) with xMin <= x <= xMax and yMin <= y <= yMax,
\* (xMin, yMin) the projection of (max lat, min lon) and (xMax, yMax) that
\* of (min lat, max lon), each once; London at zoom 0 gives the one job
\* (0, 0, 0).
C9_JobsAreTheRectangle ==
    (~cfg.continue_download /\ phase \in {"pool", "shutdown"}) =>
        LET nw == deg2num(bbox[4], bbox[1], zoom)
            se == deg2num(bbox[2], bbox[3], zoom)
        IN  /\ SeqToSet(tiles) =
                  {<<zoom, x, y>> : x \in nw[1]..se[1], y \in nw[2]..se[2]}
            /\ \A i, j \in 1..Len(tiles) : tiles[i] = tiles[j] => i = j
            /\ (bbox = London /\ zoom = 0) => tiles = <<(<<0, 0, 0>>)>>

\* C9 witness: the four jobs of Box10 at zoom 1 in the pool.
C9_Witness ==
    /\ ~cfg.continue_download
    /\ phase = "pool"
    /\ Len(tiles) = 4

\* The command lines C10 calls invalid, read off the raw values.
InvalidConfiguration ==
    \/ /\ cfg.zoom_levels.match
       /\ cfg.zoom_levels.has_high
       /\ \/ cfg.zoom_levels.high < cfg.zoom_levels.low
          \/ cfg.zoom_levels.high > 24
    \/ ~cfg.bbox.match
    \/ /\ cfg.tiles_url.given
       /\ ~({"{z}", "{x}", "{y}"} \subseteq cfg.tiles_url.fragments)
    \/ cfg.overwrite /\ cfg.continue_download
    \/ cfg.exists /\ ~cfg.overwrite /\ ~cfg.continue_download

\* C10: an invalid command line ends in an error before the file is opened
\* or changed, before any job is created and before any GET.
C10_ConfigErrorsFirst ==
    InvalidConfiguration =>
        /\ phase \in {"parse", "cli", "usage_error"}
        /\ phase = "usage_error" => error = "BadParameter"
        /\ ~db_opened
        /\ db_tiles = cfg.rows
        /\ tiles = <<>>
        /\ gets = {}

\* C10 witness: the run refused an existing file given neither --overwrite
\* nor --continue.
C10_Witness ==
    /\ phase = "usage_error"
    /\ cfg.exists
    /\ ~cfg.overwrite
    /\ ~cfg.continue_download
    /\ parse_zoom_levels(cfg.zoom_levels).err = None

\* The phases of the two stamps and the end after them.
Stamping == phase \in {"application_id", "metadata", "done"}

\* C11: a cache file that cannot be read or written is not fatal: no job
\* ends with the OSError of the cache as its exception, and no run is aborted
\* by one.
C11_CacheFailureNotFatal ==
    cache_failed # {} =>
        /\ \A i \in 1..Len(fut) : fut[i] # "OSError"
        /\ error # "OSError"

\* C12: no coordinate is handed to download_tile twice, no two threads work
\* on the same coordinate, only enumerated jobs are started, and once the
\* pools of the enumerated zoom levels were left without an abort every
\* enumerated job was started.
C12_ExactlyOnceDispatch ==
    /\ \A i, j \in 1..Len(dispatched) : dispatched[i] = dispatched[j] => i = j
    /\ \A v, w \in Workers :
          (/\ th[v].pc # "idle"
           /\ th[w].pc # "idle"
           /\ tiles[th[v].job] = tiles[th[w].job]) => v = w
    /\ SeqToSet(dispatched) \subseteq created
    /\ phase \in {"enumerate", "application_id", "metadata", "done"}
          => SeqToSet(dispatched) = created

\* C12 witness: a finished run of two threads over both zoom levels of
\* London, three jobs in all.
C12_Witness ==
    /\ phase = "done"
    /\ cfg.thread_count > 1
    /\ Len(dispatched) >= 3
    /\ SeqToSet(dispatched) = created

\* C13: when the stamps begin, and from then on, the pool of the last zoom
\* level has drained: no job is pending or running, no thread holds the write
\* lock, and every tile whose write went through has its committed row.
C13_DrainBarrier ==
    Stamping =>
        /\ zoom = zoom_levels.high
        /\ \A w \in Workers : th[w] = Idle
        /\ \A i \in 1..Len(fut) : fut[i] = "done"
        /\ db_lock \notin Workers
        /\ write_failed = {}
        /\ \A t \in SeqToSet(dispatched) \ fetch_failed : HasRow(t)

\* C13 witness: the first stamp is about to begin after a pool of two
\* threads wrote the tiles of more than one job.
C13_Witness ==
    /\ phase = "application_id"
    /\ attempt = 0
    /\ cfg.thread_count > 1
    /\ Len(tiles) > 1
    /\ \A i \in 1..Len(tiles) : Row(tiles[i], "net") \in db_tiles

\* C14: without --skip-on-failure, once a fetch has failed no further job is
\* started, and when the error leaves cli() no thread is running a job.
C14_StrictCancellation ==
    [][/\ (~cfg.skip_on_failure /\ fetch_failed # {})
            => dispatched' = dispatched
       /\ phase' = "aborted" => \A w \in Workers : th'[w] = Idle]_vars

\* C15: a job whose coordinate has a cache file when the run starts issues no
\* GET and is no fetch failure; the bytes it hands to INSERT OR IGNORE are
\* those of the file, and when it is done its coordinate has a row: with the
\* cached bytes, or the row another writer committed first.
C15_CacheHitSkipsNetwork ==
    \A f \in cfg.cache_files :
        /\ Coord(f) \notin gets \cup fetch_failed
        /\ f \in cache
        /\ \A w \in Workers :
              (th[w].pc \in {"insert", "commit"}
               /\ tiles[th[w].job] = Coord(f)) => th[w].tile_data = f.tile_data
        /\ \A i \in 1..Len(tiles) :
              (tiles[i] = Coord(f) /\ fut[i] = "done") =>
                  \E r \in db_tiles :
                      /\ Coord(r) = Coord(f)
                      /\ r.tile_data \in {f.tile_data, OtherBytes}

\* C15 witness: a finished run whose first tile came from the cache
\* directory while another was fetched.
C15_Witness ==
    /\ phase = "done"
    /\ gets # {}
    /\ \E f \in cfg.cache_files : f \in db_tiles /\ Coord(f) \in created

\* C16: each of the two stamps makes at most five attempts, and the delay it
\* sleeps after its k-th locked attempt is 2^(k-1) whatever the stamp before
\* it did: in the loop of a stamp retry_delay is 2^attempt.
C16_BackoffSchedule ==
    phase \in {"application_id", "metadata"} =>
        /\ attempt < max_retries
        /\ retry_delay = Pow2(attempt)

C18_TolerantCoversFetchOnly ==
    (cfg.skip_on_failure /\ write_failed # {}) =>
        /\ phase \in {"pool", "shutdown", "aborted"}
        /\ phase = "aborted" => error \in {"OperationalError", "OSError"}
        /\ \A i \in 1..Len(tiles) :
              tiles[i] \in write_failed => fut[i] = "OperationalError"
        /\ write_failed \cap SeqToSet(failed_urls) = {}
        /\ application_id = FoundApplicationId
        /\ metadata = FoundMetadata

\* C18 witness: a run with --skip-on-failure that tolerated a failed fetch
\* and was aborted by a locked tile write.
C18_Witness ==
    /\ cfg.skip_on_failure
    /\ phase = "aborted"
    /\ error = "OperationalError"
    /\ write_failed # {}
    /\ fetch_failed # {}

\* C19: the jobs of a pool and of its threads are of the current zoom level,
\* nothing of a later level was checked, enumerated, fetched or started, the
\* starts follow the order of the levels, and a level is enumerated only when
\* every job of the levels before it has settled and no thread runs one.
C19_ZoomLevelsInSequence ==
    /\ phase # "enumerate" => \A i \in 1..Len(tiles) : tiles[i][1] = zoom
    /\ \A w \in Workers : th[w].pc # "idle" => tiles[th[w].job][1] = zoom
    /\ \A t \in created \cup had_row \cup gets \cup SeqToSet(dispatched) :
          t[1] <= zoom
    /\ \A i, j \in 1..Len(dispatched) :
          i < j => dispatched[i][1] <= dispatched[j][1]
    /\ phase = "enumerate" =>
          /\ \A w \in Workers : th[w] = Idle
          /\ \A i \in 1..Len(fut) : fut[i] = "done"
          /\ \A t \in created : t[1] < zoom

\* C19 witness: the second zoom level is about to be enumerated after a pool
\* of two threads ran the jobs of the first.
C19_Witness ==
    /\ phase = "enumerate"
    /\ zoom > zoom_levels.low
    /\ cfg.thread_count > 1
    /\ dispatched # <<>>

\* C20: a cache file the run wrote holds the body of a response to a GET that
\* succeeded; a coordinate whose fetch failed has no cache file and no row of
\* this run; and with --cache-dir the bytes a thread hands to the INSERT, and
\* every row that holds the body of a response, are in the cache file of
\* their coordinate.
C20_CacheFromSuccessfulFetch ==
    /\ \A f \in cache \ cfg.cache_files :
          f.tile_data \in NetBytes /\ Coord(f) \in gets \ fetch_failed
    /\ \A t \in fetch_failed :
          /\ ~cache_exists(cache, t)
          /\ \A r \in RowsOf(t) : r.tile_data = OtherBytes
    /\ cfg.cache_dir =>
          /\ \A w \in Workers :
                th[w].pc \in {"insert", "commit"} =>
                    Row(tiles[th[w].job], th[w].tile_data) \in cache
          /\ \A r \in db_tiles : r.tile_data \in NetBytes => r \in cache

\* C20 witness: a finished run with --cache-dir and --skip-on-failure in
\* which one fetch failed and another tile went to the cache and the table.
C20_Witness ==
    /\ cfg.cache_dir
    /\ phase = "done"
    /\ fetch_failed # {}
    /\ \E r \in db_tiles : r.tile_data \in NetBytes /\ r \in cache

====
